---- MODULE Spec2Model ----
(***************************************************************************)
(* A model of the two components of the signing core:                      *)
(*   - the Tekton storage backend (pkg/chains/storage/tekton/tekton.go),   *)
(*     which keeps payload, signature, certificate and chain as base64     *)
(*     annotations of a TaskRun and writes them with one merge patch;      *)
(*   - the Azure KMS SignerVerifier (sigstore .../kms/azure/signer.go),    *)
(*     which converts between the raw r||s signature of the backend and    *)
(*     the ASN.1 DER SEQUENCE{INTEGER r, INTEGER s}.                       *)
(* Byte strings are sequences of numbers 0..255.  Annotation keys are      *)
(* strings.  Annotation values are sequences of character codes: 0..63 is  *)
(* the character of the standard base64 alphabet with that value, Pad is   *)
(* '=', NewLine stands for '\r' and '\n', Illegal for any other character. *)
(***************************************************************************)
EXTENDS Integers, Sequences, FiniteSets, TLC

VARIABLES
  annotations,  \* the annotations of the TaskRun in the resource store
  tr,           \* the annotations of the TaskRun object the Backend holds
  procs,        \* the call each caller of the storage backend is in
  writer,       \* history: annotation key -> the StorePayload call that set it last
  lastStore,    \* history: slot-key -> the StorePayload call applied to it last
  ncalls,       \* the number of storage calls made so far
  sv,           \* the SignerVerifier, once constructed
  sign,         \* the SignMessage call in progress, or the last one
  verify,       \* the VerifySignature call in progress, or the last one
  create        \* the CreateKey call in progress, or the last one

vars == <<annotations, tr, procs, writer, lastStore, ncalls, sv, sign, verify, create>>
storeVars == <<annotations, tr, procs, writer, lastStore, ncalls>>
signerVars == <<sv, sign, verify, create>>

---------------------------------------------------------------------------
(* Bounds of the model. *)

\* total number of storage calls (StorePayload, Retrieve*) made by all callers
MaxCalls == 3
\* the raw signatures of the backend have 2n bytes, n in 1..MaxN
MaxN == 2

\* the concurrent callers of the storage backend
Procs == {"w1", "w2"}

---------------------------------------------------------------------------
(* encoding/base64, StdEncoding *)

Pad == 64
NewLine == 65
Illegal == 66

\* a variant of EncodeToString: the encoding without padding (RawStdEncoding)
RECURSIVE EncodeToStringRaw(_)
EncodeToStringRaw(src) ==
  IF Len(src) = 0 THEN <<>>
  ELSE IF Len(src) = 1 THEN
    << src[1] \div 4, (src[1] % 4) * 16 >>
  ELSE IF Len(src) = 2 THEN
    << src[1] \div 4, (src[1] % 4) * 16 + src[2] \div 16, (src[2] % 16) * 4 >>
  ELSE
    << src[1] \div 4, (src[1] % 4) * 16 + src[2] \div 16,
       (src[2] % 16) * 4 + src[3] \div 64, src[3] % 64 >>
    \o EncodeToStringRaw(SubSeq(src, 4, Len(src)))

\* a variant of EncodeToString: URLEncoding, whose characters for the values
\* 62 and 63 are '-' and '_', no characters of the standard alphabet
URLChar(c) == IF c \in {62, 63} THEN Illegal ELSE c

RECURSIVE EncodeToStringURL(_)
EncodeToStringURL(src) ==
  IF Len(src) = 0 THEN <<>>
  ELSE IF Len(src) = 1 THEN
    << URLChar(src[1] \div 4), URLChar((src[1] % 4) * 16), Pad, Pad >>
  ELSE IF Len(src) = 2 THEN
    << URLChar(src[1] \div 4), URLChar((src[1] % 4) * 16 + src[2] \div 16),
       URLChar((src[2] % 16) * 4), Pad >>
  ELSE
    << URLChar(src[1] \div 4), URLChar((src[1] % 4) * 16 + src[2] \div 16),
       URLChar((src[2] % 16) * 4 + src[3] \div 64), URLChar(src[3] % 64) >>
    \o EncodeToStringURL(SubSeq(src, 4, Len(src)))

RECURSIVE EncodeToString(_)
EncodeToString(src) ==
  IF Len(src) = 0 THEN <<>>
  ELSE IF Len(src) = 1 THEN
    << src[1] \div 4, (src[1] % 4) * 16, Pad, Pad >>
  ELSE IF Len(src) = 2 THEN
    << src[1] \div 4, (src[1] % 4) * 16 + src[2] \div 16, (src[2] % 16) * 4, Pad >>
  ELSE
    << src[1] \div 4, (src[1] % 4) * 16 + src[2] \div 16,
       (src[2] % 16) * 4 + src[3] \div 64, src[3] % 64 >>
    \o EncodeToString(SubSeq(src, 4, Len(src)))

\* the decoder skips '\r' and '\n' wherever they stand
RECURSIVE StripNewLines(_)
StripNewLines(s) ==
  IF Len(s) = 0 THEN <<>>
  ELSE IF s[1] = NewLine THEN StripNewLines(Tail(s))
  ELSE <<s[1]>> \o StripNewLines(Tail(s))

DecodeOk(bytes) == [ok |-> TRUE, val |-> bytes]
DecodeErr == [ok |-> FALSE, val |-> <<>>]

\* one quantum of four characters at a time; padding only closes the input;
\* the bits left over in the last character are not checked (Strict is off)
RECURSIVE DecodeQuanta(_)
DecodeQuanta(t) ==
  IF Len(t) = 0 THEN DecodeOk(<<>>)
  ELSE IF Len(t) < 4 THEN DecodeErr
  ELSE IF t[1] > 63 \/ t[2] > 63 THEN DecodeErr
  ELSE IF t[3] = Pad THEN
    IF t[4] = Pad /\ Len(t) = 4
    THEN DecodeOk(<< t[1] * 4 + t[2] \div 16 >>)
    ELSE DecodeErr
  ELSE IF t[3] > 63 THEN DecodeErr
  ELSE IF t[4] = Pad THEN
    IF Len(t) = 4
    THEN DecodeOk(<< t[1] * 4 + t[2] \div 16, (t[2] % 16) * 16 + t[3] \div 4 >>)
    ELSE DecodeErr
  ELSE IF t[4] > 63 THEN DecodeErr
  ELSE LET rest == DecodeQuanta(SubSeq(t, 5, Len(t)))
       IN IF rest.ok
          THEN DecodeOk(<< t[1] * 4 + t[2] \div 16,
                           (t[2] % 16) * 16 + t[3] \div 4,
                           (t[3] % 4) * 64 + t[4] >> \o rest.val)
          ELSE DecodeErr

DecodeString(s) == DecodeQuanta(StripNewLines(s))

---------------------------------------------------------------------------
(* Tekton storage backend: annotation keys *)

TaskRunAnnotationFormat == "chains.tekton.dev/taskrun-"
AttestationAnnotationFormat == "chains.tekton.dev/attestation-"
SignatureAnnotationFormat == "chains.tekton.dev/signature-"
CertAnnotationsFormat == "chains.tekton.dev/cert-"
ChainAnnotationFormat == "chains.tekton.dev/chain-"

\* a variant of Sprintf: the key is left out of the annotation key
SprintfWithoutKey(format, key) == format

\* fmt.Sprintf(format, key) of a format that ends in its only verb, %s
Sprintf(format, key) == format \o key

PayloadTypeTekton == "tekton"
PayloadTypeInTotoIte6 == "in-toto"

\* a variant of payloadKey: a format that is not known is stored as tekton
payloadKeyLenient(opts) ==
  IF opts.PayloadFormat = PayloadTypeInTotoIte6
  THEN [err |-> FALSE, key |-> Sprintf(AttestationAnnotationFormat, opts.Key)]
  ELSE [err |-> FALSE, key |-> Sprintf(TaskRunAnnotationFormat, opts.Key)]

\* payloadKey: [err, key]
payloadKey(opts) ==
  IF opts.PayloadFormat = PayloadTypeTekton
  THEN [err |-> FALSE, key |-> Sprintf(TaskRunAnnotationFormat, opts.Key)]
  ELSE IF opts.PayloadFormat = PayloadTypeInTotoIte6
  THEN [err |-> FALSE, key |-> Sprintf(AttestationAnnotationFormat, opts.Key)]
  ELSE [err |-> TRUE, key |-> ""]

EmptyMap == [k \in {} |-> <<>>]

\* a variant of patchMap: the certificate is put under the key of the chain
patchMapCertAsChain(signature, opts) ==
  (Sprintf(SignatureAnnotationFormat, opts.Key) :> EncodeToString(signature))
  @@ (Sprintf(ChainAnnotationFormat, opts.Key) :> EncodeToString(opts.Cert))
  @@ (Sprintf(ChainAnnotationFormat, opts.Key) :> EncodeToString(opts.Chain))

\* a patchMap that adds the signature to the signatures the record holds
patchMapAppending(signature, opts) ==
  (Sprintf(SignatureAnnotationFormat, opts.Key) :>
      (IF Sprintf(SignatureAnnotationFormat, opts.Key) \in DOMAIN annotations
       THEN annotations[Sprintf(SignatureAnnotationFormat, opts.Key)] ELSE <<>>)
        \o EncodeToString(signature))
  @@ (Sprintf(CertAnnotationsFormat, opts.Key) :> EncodeToString(opts.Cert))
  @@ (Sprintf(ChainAnnotationFormat, opts.Key) :> EncodeToString(opts.Chain))

\* the patchMap of StorePayload before the payload entry is added
patchMap(signature, opts) ==
  (Sprintf(SignatureAnnotationFormat, opts.Key) :> EncodeToString(signature))
  @@ (Sprintf(CertAnnotationsFormat, opts.Key) :> EncodeToString(opts.Cert))
  @@ (Sprintf(ChainAnnotationFormat, opts.Key) :> EncodeToString(opts.Chain))

\* patchMap[payloadKey] = base64(rawPayload)
patchMapWithPayload(rawPayload, signature, opts) ==
  (payloadKey(opts).key :> EncodeToString(rawPayload)) @@ patchMap(signature, opts)

\* patch.GetAnnotationsPatch: {"metadata":{"annotations": patchMap}}
GetAnnotationsPatch(m) == [metadata |-> [annotations |-> m]]

\* the resource store applies a merge patch of string values: the keys of the
\* patch are set, every other key is left as it is
MergePatch(anns, patchBytes) ==
  LET m == patchBytes.metadata.annotations
  IN [k \in DOMAIN anns \cup DOMAIN m |-> IF k \in DOMAIN m THEN m[k] ELSE anns[k]]

---------------------------------------------------------------------------
(* Tekton storage backend: the inputs of the callers *)

Keys == {"A", "B"}
PayloadFormats == {PayloadTypeTekton, PayloadTypeInTotoIte6, "simplesigning"}

\* what a caller stores in one call: the byte strings "p", "s", "C", "K", and
\* byte strings of the other lengths modulo the three bytes of a base64 quantum
Materials ==
  { [rawPayload |-> <<112>>, signature |-> <<115>>, Cert |-> <<67>>, Chain |-> <<75>>],
    [rawPayload |-> <<0, 16, 131, 7>>, signature |-> <<48, 255>>,
     Cert |-> <<>>, Chain |-> <<255, 254, 253>>] }

StorageOpts(m) ==
  [Key : Keys, Cert : {m.Cert}, Chain : {m.Chain}, PayloadFormat : PayloadFormats]

\* the options of a Retrieve call carry no certificate and no chain
RetrieveOpts == [Key : Keys, Cert : {<<>>}, Chain : {<<>>}, PayloadFormat : PayloadFormats]

\* RetrieveSignature reads opts.Key alone
SignatureOpts == {o \in RetrieveOpts : o.PayloadFormat \in {PayloadTypeTekton, "simplesigning"}}

NoOpts == [Key |-> "", Cert |-> <<>>, Chain |-> <<>>, PayloadFormat |-> ""]
NoResult == [err |-> "", errKey |-> "", val |-> <<>>]
NoPatch == GetAnnotationsPatch(EmptyMap)
NoCall == [rawPayload |-> <<>>, signature |-> <<>>, opts |-> NoOpts]

\* history of a Retrieve call: what the Get found under the annotation key, and
\* the StorePayload call that was the last one applied to the slot-key
NoGot == [exists |-> FALSE, value |-> <<>>, last |-> NoCall]

\* a caller that is in no call: pc is where it is in its call, patchBytes the Patch
\* request in flight, patches and gets count the requests the call has sent
Idle ==
  [pc |-> "idle", op |-> "", call |-> NoCall, patchBytes |-> NoPatch,
   annotationKey |-> "", patches |-> 0, gets |-> 0, res |-> NoResult,
   got |-> NoGot]

\* the TaskRun as the callers find it: without annotations, or with an
\* annotation of another tool and entries of slot B that are not base64
InitialAnnotations ==
  { EmptyMap,
    (Sprintf(SignatureAnnotationFormat, "B") :> <<28, 48, Illegal, Pad>>)
      @@ (Sprintf(TaskRunAnnotationFormat, "B") :> <<28, 0, Pad>>)
      @@ ("tekton.dev/unrelated" :> <<28, NewLine, 0, Pad, Pad>>) }

---------------------------------------------------------------------------
(* Tekton storage backend: the operations *)

\* a variant of retrieveAnnotationValue: an annotation that is not there is an
\* error, and a value that does not decode is returned as it is
retrieveAnnotationValueStrict(anns, annotationKey, decode) ==
  IF annotationKey \in DOMAIN anns
  THEN LET d == DecodeString(anns[annotationKey])
       IN IF decode /\ d.ok
          THEN [err |-> "", errKey |-> "", val |-> d.val]
          ELSE [err |-> "", errKey |-> "", val |-> anns[annotationKey]]
  ELSE [err |-> "annotation not found", errKey |-> annotationKey, val |-> <<>>]

\* retrieveAnnotationValue, once the Get has returned the annotations anns
retrieveAnnotationValue(anns, annotationKey, decode) ==
  IF annotationKey \in DOMAIN anns
  THEN IF decode
       THEN LET d == DecodeString(anns[annotationKey])
            IN IF d.ok
               THEN [err |-> "", errKey |-> "", val |-> d.val]
               ELSE [err |-> "error decoding the annotation value for the key",
                     errKey |-> annotationKey, val |-> <<>>]
       ELSE [err |-> "", errKey |-> "", val |-> anns[annotationKey]]
  ELSE [err |-> "", errKey |-> "", val |-> <<>>]

\* a caller may start a call when it is in none
CanCall(p) ==
  /\ procs[p].pc \in {"idle", "done"}
  /\ ncalls < MaxCalls

\* StorePayload up to the Patch request: the format is checked, the patch built
StorePayload(p, rawPayload, signature, opts) ==
  /\ CanCall(p)
  /\ ncalls' = ncalls + 1
  /\ LET c == [rawPayload |-> rawPayload, signature |-> signature, opts |-> opts]
     IN IF payloadKey(opts).err
        THEN procs' = [procs EXCEPT ![p] =
               [Idle EXCEPT !.pc = "done", !.op = "StorePayload", !.call = c,
                  !.res = [NoResult EXCEPT
                     !.err = "tekton storage does not support payloads of type"]]]
        ELSE procs' = [procs EXCEPT ![p] =
               [Idle EXCEPT !.pc = "patching", !.op = "StorePayload", !.call = c,
                  !.patches = 1,
                  !.patchBytes = GetAnnotationsPatch(
                     patchMapWithPayload(rawPayload, signature, opts))]]
  /\ UNCHANGED <<annotations, writer, lastStore, tr, signerVars>>

\* a StorePayload that writes in two requests, the payload entry and then the
\* other entries, each applied on its own
PatchAppliedInTwoRequests(p) ==
  /\ procs[p].pc = "patching"
  /\ LET m == procs[p].patchBytes.metadata.annotations
         pk == payloadKey(procs[p].call.opts).key
         first == GetAnnotationsPatch([k \in {pk} |-> m[k]])
         second == GetAnnotationsPatch([k \in DOMAIN m \ {pk} |-> m[k]])
     IN \/ /\ procs[p].patches = 1
           /\ annotations' = MergePatch(annotations, first)
           /\ procs' = [procs EXCEPT ![p].patches = 2]
           /\ UNCHANGED <<writer, lastStore>>
        \/ /\ procs[p].patches = 2
           /\ annotations' = MergePatch(annotations, second)
           /\ writer' = [k \in DOMAIN writer \cup DOMAIN m |->
                           IF k \in DOMAIN m THEN procs[p].call ELSE writer[k]]
           /\ lastStore' = [k \in DOMAIN lastStore \cup {procs[p].call.opts.Key} |->
                              IF k = procs[p].call.opts.Key THEN procs[p].call
                              ELSE lastStore[k]]
           /\ procs' = [procs EXCEPT ![p].pc = "done"]
  /\ UNCHANGED <<ncalls, tr, signerVars>>

\* a StorePayload that writes with Update in place of Patch: the annotations
\* of the record become those the caller sent
PatchAppliedAsUpdate(p) ==
  /\ procs[p].pc = "patching"
  /\ annotations' = procs[p].patchBytes.metadata.annotations
  /\ writer' = [k \in DOMAIN procs[p].patchBytes.metadata.annotations |-> procs[p].call]
  /\ lastStore' = [k \in DOMAIN lastStore \cup {procs[p].call.opts.Key} |->
                     IF k = procs[p].call.opts.Key THEN procs[p].call ELSE lastStore[k]]
  /\ procs' = [procs EXCEPT ![p].pc = "done"]
  /\ UNCHANGED <<ncalls, tr, signerVars>>

\* the resource store applies the merge patch of caller p, atomically
PatchApplied(p) ==
  /\ procs[p].pc = "patching"
  /\ annotations' = MergePatch(annotations, procs[p].patchBytes)
  /\ writer' = [k \in DOMAIN writer \cup DOMAIN procs[p].patchBytes.metadata.annotations |->
                  IF k \in DOMAIN procs[p].patchBytes.metadata.annotations
                  THEN procs[p].call ELSE writer[k]]
  /\ lastStore' = [k \in DOMAIN lastStore \cup {procs[p].call.opts.Key} |->
                     IF k = procs[p].call.opts.Key THEN procs[p].call ELSE lastStore[k]]
  /\ procs' = [procs EXCEPT ![p].pc = "done"]
  /\ UNCHANGED <<ncalls, tr, signerVars>>

\* a StorePayload that sends the patch once more when the store rejects it
PatchRejectedWithRetry(p) ==
  /\ procs[p].pc = "patching"
  /\ procs' = IF procs[p].patches < 2
              THEN [procs EXCEPT ![p].patches = procs[p].patches + 1]
              ELSE [procs EXCEPT ![p].pc = "done", ![p].res.err = "patch rejected"]
  /\ UNCHANGED <<annotations, writer, lastStore, ncalls, tr, signerVars>>

\* the resource store rejects the patch (record missing, conflict, denied)
PatchRejected(p) ==
  /\ procs[p].pc = "patching"
  /\ procs' = [procs EXCEPT ![p].pc = "done", ![p].res.err = "patch rejected"]
  /\ UNCHANGED <<annotations, writer, lastStore, ncalls, tr, signerVars>>

RetrieveSignature(p, opts) ==
  /\ CanCall(p)
  /\ ncalls' = ncalls + 1
  /\ procs' = [procs EXCEPT ![p] =
       [Idle EXCEPT !.pc = "getting", !.op = "RetrieveSignature",
          !.call = [NoCall EXCEPT !.opts = opts],
          !.gets = 1,
          !.annotationKey = Sprintf(SignatureAnnotationFormat, opts.Key)]]
  /\ UNCHANGED <<annotations, writer, lastStore, tr, signerVars>>

RetrievePayload(p, opts) ==
  /\ CanCall(p)
  /\ ncalls' = ncalls + 1
  /\ LET c == [NoCall EXCEPT !.opts = opts]
     IN IF payloadKey(opts).err
        THEN procs' = [procs EXCEPT ![p] =
               [Idle EXCEPT !.pc = "done", !.op = "RetrievePayload", !.call = c,
                  !.res = [NoResult EXCEPT
                     !.err = "tekton storage does not support payloads of type"]]]
        ELSE procs' = [procs EXCEPT ![p] =
               [Idle EXCEPT !.pc = "getting", !.op = "RetrievePayload", !.call = c,
                  !.gets = 1, !.annotationKey = payloadKey(opts).key]]
  /\ UNCHANGED <<annotations, writer, lastStore, tr, signerVars>>

\* a Retrieve that reads the annotations of the TaskRun the Backend holds
GetReturnedFromSnapshot(p) ==
  /\ procs[p].pc = "getting"
  /\ procs' = [procs EXCEPT ![p].pc = "done",
       ![p].res = retrieveAnnotationValue(tr, procs[p].annotationKey, TRUE),
       ![p].got =
          [exists |-> procs[p].annotationKey \in DOMAIN annotations,
           value |-> IF procs[p].annotationKey \in DOMAIN annotations
                     THEN annotations[procs[p].annotationKey] ELSE <<>>,
           last |-> IF procs[p].call.opts.Key \in DOMAIN lastStore
                    THEN lastStore[procs[p].call.opts.Key] ELSE NoCall]]
  /\ UNCHANGED <<annotations, writer, lastStore, ncalls, tr, signerVars>>

\* the Get of caller p returns the TaskRun as it is now; the value is decoded
GetReturned(p) ==
  /\ procs[p].pc = "getting"
  /\ procs' = [procs EXCEPT ![p].pc = "done",
       ![p].res = retrieveAnnotationValue(annotations, procs[p].annotationKey, TRUE),
       ![p].got =
          [exists |-> procs[p].annotationKey \in DOMAIN annotations,
           value |-> IF procs[p].annotationKey \in DOMAIN annotations
                     THEN annotations[procs[p].annotationKey] ELSE <<>>,
           last |-> IF procs[p].call.opts.Key \in DOMAIN lastStore
                    THEN lastStore[procs[p].call.opts.Key] ELSE NoCall]]
  /\ UNCHANGED <<annotations, writer, lastStore, ncalls, tr, signerVars>>

\* the Get of caller p fails
GetFailed(p) ==
  /\ procs[p].pc = "getting"
  /\ procs' = [procs EXCEPT ![p].pc = "done",
                                ![p].res.err = "error retrieving taskrun"]
  /\ UNCHANGED <<annotations, writer, lastStore, ncalls, tr, signerVars>>

---------------------------------------------------------------------------
(* Azure SignerVerifier: math/big and cryptobyte on byte strings *)

\* a big.Int is its sign and its magnitude, the big-endian bytes without
\* leading zero bytes (the empty string is zero)
RECURSIVE StripLeadingZeros(_)
StripLeadingZeros(buf) ==
  IF Len(buf) = 0 THEN <<>>
  ELSE IF buf[1] = 0 THEN StripLeadingZeros(Tail(buf))
  ELSE buf

\* (*big.Int).SetBytes: buf read as a big-endian unsigned integer
SetBytes(buf) == [neg |-> FALSE, abs |-> StripLeadingZeros(buf)]

\* (*big.Int).Bytes: the magnitude as a big-endian byte string
Bytes(x) == x.abs

\* the DER length octets of a value of l bytes
RECURSIVE BigEndian(_)
BigEndian(n) == IF n = 0 THEN <<>> ELSE BigEndian(n \div 256) \o <<n % 256>>

DERLength(l) ==
  IF l < 128 THEN <<l>> ELSE <<128 + Len(BigEndian(l))>> \o BigEndian(l)

SEQUENCE == 48
INTEGER == 2

\* (*cryptobyte.Builder).AddASN1: tag, length, contents
AddASN1(tag, contents) == <<tag>> \o DERLength(Len(contents)) \o contents

\* (*cryptobyte.Builder).AddASN1BigInt of an integer that is not negative
AddASN1BigInt(n) ==
  AddASN1(INTEGER,
          IF Len(n.abs) = 0 THEN <<0>>
          ELSE IF n.abs[1] >= 128 THEN <<0>> \o n.abs
          ELSE n.abs)

\* SignMessage, lines 115-128: r||s to SEQUENCE{INTEGER r, INTEGER s}
derFromRaw(rawSig) ==
  LET l == Len(rawSig)
      r == SetBytes(SubSeq(rawSig, 1, l \div 2))
      s == SetBytes(SubSeq(rawSig, l \div 2 + 1, l))
  IN AddASN1(SEQUENCE, AddASN1BigInt(r) \o AddASN1BigInt(s))

ReadFail == [ok |-> FALSE, out |-> <<>>, rest |-> <<>>]

\* (*cryptobyte.String).ReadAnyASN1 and the tag check of ReadASN1.  A length of
\* four octets is at least 2^24 and exceeds every input of this model.
ReadASN1(s, tag) ==
  IF Len(s) < 2 THEN ReadFail
  ELSE IF s[1] % 32 = 31 THEN ReadFail
  ELSE LET lenByte == s[2]
           lenLen == lenByte - 128
           long == lenByte >= 128
           badLong == long /\ (lenLen = 0 \/ lenLen > 3 \/ Len(s) < 2 + lenLen)
           len32 == IF ~long THEN lenByte
                    ELSE IF lenLen = 1 THEN s[3]
                    ELSE IF lenLen = 2 THEN s[3] * 256 + s[4]
                    ELSE s[3] * 65536 + s[4] * 256 + s[5]
           headerLen == IF long THEN 2 + lenLen ELSE 2
       IN IF badLong THEN ReadFail
          ELSE IF long /\ (len32 < 128 \/ s[3] = 0) THEN ReadFail
          ELSE IF Len(s) < headerLen + len32 THEN ReadFail
          ELSE IF s[1] # tag THEN ReadFail
          ELSE [ok |-> TRUE,
                out |-> SubSeq(s, headerLen + 1, headerLen + len32),
                rest |-> SubSeq(s, headerLen + len32 + 1, Len(s))]

\* checkASN1Integer: not empty, and minimally encoded
checkASN1Integer(bytes) ==
  IF Len(bytes) = 0 THEN FALSE
  ELSE IF Len(bytes) = 1 THEN TRUE
  ELSE IF bytes[1] = 0 /\ bytes[2] < 128 THEN FALSE
  ELSE IF bytes[1] = 255 /\ bytes[2] >= 128 THEN FALSE
  ELSE TRUE

\* the magnitude of the negative number that bytes is the two's complement of
RECURSIVE AddOne(_)
AddOne(bytes) ==
  IF Len(bytes) = 0 THEN <<1>>
  ELSE IF bytes[Len(bytes)] < 255
  THEN SubSeq(bytes, 1, Len(bytes) - 1) \o <<bytes[Len(bytes)] + 1>>
  ELSE AddOne(SubSeq(bytes, 1, Len(bytes) - 1)) \o <<0>>

Complement(bytes) == [i \in 1..Len(bytes) |-> 255 - bytes[i]]

\* (*cryptobyte.String).ReadASN1Integer into a *big.Int
ReadASN1Integer(s) ==
  LET e == ReadASN1(s, INTEGER)
  IN IF ~e.ok \/ ~checkASN1Integer(e.out)
     THEN [ok |-> FALSE, out |-> SetBytes(<<>>), rest |-> <<>>]
     ELSE IF e.out[1] >= 128
     THEN [ok |-> TRUE,
           out |-> [neg |-> TRUE, abs |-> StripLeadingZeros(AddOne(Complement(e.out)))],
           rest |-> e.rest]
     ELSE [ok |-> TRUE, out |-> SetBytes(e.out), rest |-> e.rest]

\* a variant of rawFromDER: what follows the sequence, or follows s inside it,
\* is not looked at
rawFromDERLenient(sigBytes) ==
  LET input == ReadASN1(sigBytes, SEQUENCE)
      r == ReadASN1Integer(input.out)
      s == ReadASN1Integer(r.rest)
  IN IF ~input.ok \/ ~r.ok \/ ~s.ok
     THEN [ok |-> FALSE, rawSigBytes |-> <<>>]
     ELSE [ok |-> TRUE, rawSigBytes |-> Bytes(r.out) \o Bytes(s.out)]

\* VerifySignature, lines 162-177: the DER signature parsed and turned into the
\* raw signature sent to the backend: [ok, rawSigBytes]
rawFromDER(sigBytes) ==
  LET input == ReadASN1(sigBytes, SEQUENCE)
      r == ReadASN1Integer(input.out)
      s == ReadASN1Integer(r.rest)
  IN IF ~input.ok \/ Len(input.rest) # 0 \/ ~r.ok \/ ~s.ok \/ Len(s.rest) # 0
     THEN [ok |-> FALSE, rawSigBytes |-> <<>>]
     ELSE [ok |-> TRUE, rawSigBytes |-> Bytes(r.out) \o Bytes(s.out)]

---------------------------------------------------------------------------
(* Azure SignerVerifier: construction, SignMessage, VerifySignature *)

NoHash == "Hash(0)"
SHA256 == "SHA256"

azureSupportedHashFuncs == {SHA256}

Algorithm_ES256 == "ES256"
azureSupportedAlgorithms == {Algorithm_ES256}
SupportedAlgorithms == azureSupportedAlgorithms
DefaultAlgorithm == Algorithm_ES256

\* the hash functions callers ask for
HashFuncs == {NoHash, "MD5", SHA256, "SHA512"}

\* the switch of LoadSignerVerifier: [ok, hashFunc]
loadHashFunc(hashFunc) ==
  IF hashFunc \in {NoHash, "SHA224", SHA256, "SHA384", "SHA512"}
  THEN [ok |-> TRUE, hashFunc |-> hashFunc]
  ELSE [ok |-> FALSE, hashFunc |-> ""]

\* the context a call gives to the backend client
signCtx(opts) == "background"
verifyCtx(opts) == "background"

\* a context is done when it was cancelled or its deadline has passed;
\* context.Background() never is
CtxDone(ctx) == ctx = "cancelled"

\* signature.ComputeDigestForSigning / ComputeDigestForVerifying: the hash is
\* the one of the options or else the default, and must be supported; a digest
\* given in the options must have its size: [err, digest]
ComputeDigest(defaultHashFunc, supported, opts) ==
  LET hashedWith == IF opts.signerOpts # "" THEN opts.signerOpts ELSE defaultHashFunc
  IN IF hashedWith \notin supported
     THEN [err |-> "unsupported hash algorithm", digest |-> ""]
     ELSE IF opts.digest = "wrong size"
     THEN [err |-> "unexpected length of digest", digest |-> ""]
     ELSE IF opts.digest = "given"
     THEN [err |-> "", digest |-> "digest of the options"]
     ELSE [err |-> "", digest |-> "digest of the message"]

WithContext(ctx) == [ctx |-> ctx, digest |-> "", signerOpts |-> ""]
WithDigest(digest) == [ctx |-> "", digest |-> digest, signerOpts |-> ""]
WithCryptoSignerOpts(h) == [ctx |-> "", digest |-> "", signerOpts |-> h]

NoOptions == [ctx |-> "", digest |-> "", signerOpts |-> ""]

\* the options of a SignMessage call
SignOptions ==
  { NoOptions, WithContext("live"), WithContext("cancelled"), WithDigest("given"),
    WithDigest("wrong size"), WithCryptoSignerOpts(SHA256),
    WithCryptoSignerOpts("SHA512") }

\* the options of a VerifySignature call
VerifyOptions ==
  { NoOptions, WithContext("cancelled"), WithDigest("given"), WithDigest("wrong size") }

\* the bytes of the raw signatures of the backend
RawBytes == {0, 1, 128}

RECURSIVE ByteStrings(_)
ByteStrings(n) ==
  IF n = 0 THEN {<<>>}
  ELSE {<<b>> \o t : b \in RawBytes, t \in ByteStrings(n - 1)}

\* the raw signatures r||s with |r| = |s| = n, n in 1..MaxN
RawSignatures == UNION {ByteStrings(2 * n) : n \in 1..MaxN}

NoSign ==
  [pc |-> "idle", opts |-> NoOptions, digest |-> "", requests |-> 0,
   rawSig |-> <<>>, der |-> <<>>, err |-> ""]

\* the algorithms a caller names in CreateKey
Algorithms == {Algorithm_ES256, "RS256", ""}

NoCreate == [pc |-> "idle", algorithm |-> "", requests |-> 0, err |-> ""]

NoVerify ==
  [pc |-> "idle", opts |-> NoOptions, how |-> "", sigBytes |-> <<>>, digest |-> "",
   requests |-> 0, rawSigBytes |-> <<>>, backend |-> "", err |-> "", ok |-> FALSE]

\* the signatures a caller hands to VerifySignature, made from the DER
\* signature der that SignMessage returned: der itself, der with a byte after
\* the sequence, der with a byte inside the sequence after s, der with another
\* tag in place of SEQUENCE, and der cut short by its last byte
SignatureInputs(der) ==
  {[how |-> "signed", sigBytes |-> der]}
  \cup {[how |-> "trailing byte", sigBytes |-> der \o <<b>>] : b \in {0, 48}}
  \cup {[how |-> "trailing byte inside",
         sigBytes |-> <<der[1], der[2] + 1>> \o SubSeq(der, 3, Len(der)) \o <<b>>] :
           b \in {0, 2}}
  \cup {[how |-> "other tag", sigBytes |-> <<t>> \o Tail(der)] : t \in {49, 16, 2, 63}}
  \cup {[how |-> "truncated", sigBytes |-> SubSeq(der, 1, Len(der) - 1)]}

\* signatures that no SignMessage returned: a negative r, an r that is not
\* minimally encoded, the empty string
OtherSignatures ==
  { [how |-> "negative", sigBytes |-> <<48, 6, 2, 1, 255, 2, 1, 1>>],
    [how |-> "not minimal", sigBytes |-> <<48, 7, 2, 2, 0, 1, 2, 1, 1>>],
    [how |-> "empty", sigBytes |-> <<>>] }

\* LoadSignerVerifier; kmsOk: newAzureKMS resolves referenceStr
LoadSignerVerifier(kmsOk, hashFunc) ==
  /\ ~sv.loaded
  /\ sv' = IF ~kmsOk
           THEN [loaded |-> FALSE, requested |-> hashFunc, hashFunc |-> "",
                 err |-> "newAzureKMS"]
           ELSE IF ~loadHashFunc(hashFunc).ok
           THEN [loaded |-> FALSE, requested |-> hashFunc, hashFunc |-> "",
                 err |-> "hash function not supported by Hashivault"]
           ELSE [loaded |-> TRUE, requested |-> hashFunc,
                 hashFunc |-> loadHashFunc(hashFunc).hashFunc, err |-> ""]
  /\ UNCHANGED <<sign, verify, create, storeVars>>

\* SignMessage up to the request to the backend.  The caller makes its calls
\* one after the other; verify holds the VerifySignature call made, if any,
\* since the last SignMessage, and create the CreateKey call made, if any,
\* before the first SignMessage or VerifySignature.
SignMessage(opts) ==
  /\ sv.loaded
  /\ sign.pc # "signing"
  /\ verify.pc # "verifying"
  /\ create.pc # "creating"
  /\ LET d == ComputeDigest(sv.hashFunc, azureSupportedHashFuncs, opts)
     IN sign' =
          IF d.err # ""
          THEN [NoSign EXCEPT !.pc = "done", !.opts = opts, !.err = d.err]
          ELSE IF CtxDone(signCtx(opts))
          THEN [NoSign EXCEPT !.pc = "done", !.opts = opts, !.digest = d.digest,
                              !.err = "context canceled"]
          ELSE [NoSign EXCEPT !.pc = "signing", !.opts = opts, !.digest = d.digest,
                              !.requests = 1]
  /\ verify' = NoVerify
  /\ create' = NoCreate
  /\ UNCHANGED <<sv, storeVars>>

\* the backend returns the raw signature; SignMessage returns it as DER
SignReturned(rawSig) ==
  /\ sign.pc = "signing"
  /\ sign' = [sign EXCEPT !.pc = "done", !.rawSig = rawSig, !.der = derFromRaw(rawSig)]
  /\ UNCHANGED <<sv, verify, create, storeVars>>

\* the backend fails to sign
SignFailed ==
  /\ sign.pc = "signing"
  /\ sign' = [sign EXCEPT !.pc = "done", !.err = "sign"]
  /\ UNCHANGED <<sv, verify, create, storeVars>>

\* VerifySignature up to the request to the backend
VerifySignature(in, opts) ==
  /\ sv.loaded
  /\ verify.pc = "idle"
  /\ create.pc # "creating"
  /\ LET d == ComputeDigest(sv.hashFunc, azureSupportedHashFuncs, opts)
         parsed == rawFromDER(in.sigBytes)
         v == [NoVerify EXCEPT !.opts = opts, !.how = in.how, !.sigBytes = in.sigBytes]
     IN verify' =
          IF d.err # ""
          THEN [v EXCEPT !.pc = "done", !.err = d.err]
          ELSE IF ~parsed.ok
          THEN [v EXCEPT !.pc = "done", !.digest = d.digest, !.err = "parsing signature"]
          ELSE IF CtxDone(verifyCtx(opts))
          THEN [v EXCEPT !.pc = "done", !.digest = d.digest, !.err = "context canceled"]
          ELSE [v EXCEPT !.pc = "verifying", !.digest = d.digest, !.requests = 1,
                         !.rawSigBytes = parsed.rawSigBytes]
  /\ create' = NoCreate
  /\ UNCHANGED <<sv, sign, storeVars>>

\* a VerifySignature that reports success whatever the backend answers
VerifyReturnedAlwaysValid(valid) ==
  /\ verify.pc = "verifying"
  /\ verify' = [verify EXCEPT !.pc = "done",
                  !.backend = IF valid THEN "valid" ELSE "invalid",
                  !.ok = TRUE,
                  !.err = ""]
  /\ UNCHANGED <<sv, sign, create, storeVars>>

\* the backend answers the verify request; VerifySignature returns its answer
VerifyReturned(valid) ==
  /\ verify.pc = "verifying"
  /\ verify' = [verify EXCEPT !.pc = "done",
                  !.backend = IF valid THEN "valid" ELSE "invalid",
                  !.ok = valid,
                  !.err = IF valid THEN "" ELSE "verify"]
  /\ UNCHANGED <<sv, sign, create, storeVars>>

\* CreateKey up to the request to the backend: the call is handed to the
\* client as it is, algorithm is not read
CreateKey(algorithm) ==
  /\ sv.loaded
  /\ sign.pc = "idle"
  /\ verify.pc = "idle"
  /\ create.pc # "creating"
  /\ create' = [NoCreate EXCEPT !.pc = "creating", !.algorithm = algorithm,
                                !.requests = 1]
  /\ UNCHANGED <<sv, sign, verify, storeVars>>

\* the backend answers the create-key request; CreateKey returns its answer
CreateKeyReturned(created) ==
  /\ create.pc = "creating"
  /\ create' = [create EXCEPT !.pc = "done",
                  !.err = IF created THEN "" ELSE "createKey"]
  /\ UNCHANGED <<sv, sign, verify, storeVars>>

---------------------------------------------------------------------------
(* The specifications *)

NoSigner == [loaded |-> FALSE, requested |-> "", hashFunc |-> "", err |-> ""]

InitSigner ==
  /\ sv = NoSigner
  /\ sign = NoSign
  /\ verify = NoVerify
  /\ create = NoCreate

\* NewStorageBackend is given the TaskRun as it is in the store
InitStore ==
  /\ annotations \in InitialAnnotations
  /\ tr = annotations
  /\ procs = [p \in Procs |-> Idle]
  /\ writer = [k \in {} |-> NoCall]
  /\ lastStore = [k \in {} |-> NoCall]
  /\ ncalls = 0

Init == InitStore /\ InitSigner

Next ==
  \/ \E p \in Procs, m \in Materials : \E opts \in StorageOpts(m) :
        StorePayload(p, m.rawPayload, m.signature, opts)
  \/ \E p \in Procs : PatchApplied(p)
  \/ \E p \in Procs : PatchRejected(p)
  \/ \E p \in Procs, opts \in SignatureOpts : RetrieveSignature(p, opts)
  \/ \E p \in Procs, opts \in RetrieveOpts : RetrievePayload(p, opts)
  \/ \E p \in Procs : GetReturned(p)
  \/ \E p \in Procs : GetFailed(p)

\* the callers of the storage backend
Spec == Init /\ [][Next]_vars

InitSignerOnly ==
  /\ annotations = EmptyMap
  /\ tr = EmptyMap
  /\ procs = [p \in Procs |-> Idle]
  /\ writer = [k \in {} |-> NoCall]
  /\ lastStore = [k \in {} |-> NoCall]
  /\ ncalls = 0
  /\ InitSigner

NextSigner ==
  \/ \E kmsOk \in BOOLEAN, hashFunc \in HashFuncs : LoadSignerVerifier(kmsOk, hashFunc)
  \/ \E opts \in SignOptions : SignMessage(opts)
  \/ \E rawSig \in RawSignatures : SignReturned(rawSig)
  \/ SignFailed
  \/ \E opts \in VerifyOptions :
       \E in \in OtherSignatures
                 \cup (IF sign.pc = "done" /\ sign.err = ""
                       THEN SignatureInputs(sign.der) ELSE {}) :
          VerifySignature(in, opts)
  \/ \E valid \in BOOLEAN : VerifyReturned(valid)
  \/ \E algorithm \in Algorithms : CreateKey(algorithm)
  \/ \E created \in BOOLEAN : CreateKeyReturned(created)

\* the callers of the SignerVerifier
SpecSigner == InitSignerOnly /\ [][NextSigner]_vars

---------------------------------------------------------------------------
(* Properties of the storage backend *)

Ok(bytes) == [err |-> "", errKey |-> "", val |-> bytes]

\* caller p has returned from a StorePayload whose patch the store applied
Stored(p) ==
  /\ procs[p].op = "StorePayload"
  /\ procs[p].pc = "done"
  /\ procs[p].res.err = ""

\* caller p has returned from a Retrieve call whose Get returned the TaskRun
Retrieved(p) ==
  /\ procs[p].op \in {"RetrieveSignature", "RetrievePayload"}
  /\ procs[p].pc = "done"
  /\ procs[p].gets = 1
  /\ procs[p].res.err # "error retrieving taskrun"

\* on the TaskRun as it is now, RetrievePayload and RetrieveSignature with the
\* options of the StorePayload call c return the payload and the signature of c
Retrievable(c) ==
  /\ ~payloadKey(c.opts).err
  /\ retrieveAnnotationValue(annotations, payloadKey(c.opts).key, TRUE) = Ok(c.rawPayload)
  /\ retrieveAnnotationValue(annotations,
        Sprintf(SignatureAnnotationFormat, c.opts.Key), TRUE) = Ok(c.signature)

\* C1: when StorePayload calls with different opts.Key have been applied to the
\* same TaskRun, in whatever order the calls were made and their patches
\* applied, a call returns an error only for its own format or because the
\* store rejected its own patch, and RetrievePayload and RetrieveSignature
\* return, for each of the keys, the payload and the signature of the call
\* applied last to that key.
C1_DisjointKeysBothRetrievable ==
  /\ \A p \in Procs :
       procs[p].op = "StorePayload" /\ procs[p].pc = "done" /\ procs[p].res.err # ""
         => \/ payloadKey(procs[p].call.opts).err
            \/ procs[p].res.err = "patch rejected"
  /\ \A k1, k2 \in DOMAIN lastStore :
       k1 # k2 => Retrievable(lastStore[k1]) /\ Retrievable(lastStore[k2])

\* two callers have stored different materials under different keys
C1_Witness ==
  \E p, q \in Procs :
    /\ Stored(p) /\ Stored(q)
    /\ procs[p].call.opts.Key = "A" /\ procs[q].call.opts.Key = "B"
    /\ procs[p].call.rawPayload # procs[q].call.rawPayload
    /\ lastStore = ("A" :> procs[p].call) @@ ("B" :> procs[q].call)

\* the four annotation keys of a StorePayload with these options, written out
FourKeys(opts) ==
  { "chains.tekton.dev/signature-" \o opts.Key,
    "chains.tekton.dev/cert-" \o opts.Key,
    "chains.tekton.dev/chain-" \o opts.Key,
    (IF opts.PayloadFormat = "tekton" THEN "chains.tekton.dev/taskrun-"
     ELSE "chains.tekton.dev/attestation-") \o opts.Key }

\* C2: the step in which a StorePayload succeeds sets exactly four annotation
\* keys, signature, cert, chain and the payload key of its format, all of its
\* own slot-key, and leaves every other annotation as it was, those of other
\* slot-keys and those of other tools included.
C2_ExactlyFourKeys ==
  [][\A p \in Procs :
       procs[p].pc = "patching" /\ procs'[p].pc = "done" /\ procs'[p].res.err = ""
         => LET K == FourKeys(procs[p].call.opts)
            IN /\ Cardinality(K) = 4
               /\ DOMAIN annotations' = DOMAIN annotations \cup K
               /\ \A k \in DOMAIN annotations \ K : annotations'[k] = annotations[k]
               /\ \A k \in DOMAIN annotations' :
                    (\E j \in Keys \ {procs[p].call.opts.Key}, f \in
                        {TaskRunAnnotationFormat, AttestationAnnotationFormat,
                         SignatureAnnotationFormat, CertAnnotationsFormat,
                         ChainAnnotationFormat} : k = Sprintf(f, j))
                      => k \in DOMAIN annotations /\ annotations'[k] = annotations[k]
               /\ \A k \in K : writer'[k] = procs[p].call]_vars

\* a StorePayload for slot A has succeeded on a TaskRun that holds an annotation
\* of another tool and entries of slot B, and these are as they were
C2_Witness ==
  /\ \E p \in Procs : Stored(p) /\ procs[p].call.opts.Key = "A"
  /\ DOMAIN annotations =
       FourKeys([Key |-> "A", PayloadFormat |-> "tekton"])
         \cup {"tekton.dev/unrelated", "chains.tekton.dev/signature-B",
               "chains.tekton.dev/taskrun-B"}
  /\ annotations["chains.tekton.dev/signature-B"] = <<28, 48, Illegal, Pad>>

\* C3: a Retrieve whose Get has returned, after a StorePayload(p, s, opts) that
\* was the last store applied to its slot-key, returns s (RetrieveSignature)
\* or p (RetrievePayload with the format of the store), for every p and s; and
\* RetrievePayload of a key that the record does not hold returns the empty
\* string and no error.
C3_StoreThenRetrieve ==
  \A p \in Procs :
    Retrieved(p) =>
      /\ procs[p].op = "RetrieveSignature" /\ procs[p].got.last # NoCall
           => procs[p].res = Ok(procs[p].got.last.signature)
      /\ ( /\ procs[p].op = "RetrievePayload"
           /\ procs[p].got.last # NoCall
           /\ procs[p].got.last.opts.PayloadFormat = procs[p].call.opts.PayloadFormat )
           => procs[p].res = Ok(procs[p].got.last.rawPayload)
      /\ procs[p].op = "RetrievePayload" /\ ~procs[p].got.exists
           => procs[p].res = Ok(<<>>)

\* a RetrievePayload has returned the payload of four bytes that was stored,
\* and a RetrieveSignature the signature of two bytes
C3_Witness ==
  \E p, q \in Procs :
    /\ Retrieved(p) /\ procs[p].op = "RetrievePayload"
    /\ procs[p].got.last # NoCall
    /\ procs[p].res = Ok(<<0, 16, 131, 7>>)
    /\ Retrieved(q) /\ procs[q].op = "RetrieveSignature"
    /\ procs[q].res = Ok(<<48, 255>>)

Supported(opts) == opts.PayloadFormat \in {"tekton", "in-toto"}

\* C6: a StorePayload or a RetrievePayload with a format other than tekton and
\* in-toto has returned the unsupported-format error without sending a Patch or
\* a Get, and no annotation was ever set by such a call.
C6_UnsupportedFormat ==
  /\ \A p \in Procs :
       procs[p].op \in {"StorePayload", "RetrievePayload"} /\ ~Supported(procs[p].call.opts)
         => /\ procs[p].pc = "done"
            /\ procs[p].res.err = "tekton storage does not support payloads of type"
            /\ procs[p].patches = 0
            /\ procs[p].gets = 0
  /\ \A k \in DOMAIN writer : Supported(writer[k].opts)
  /\ \A k \in DOMAIN lastStore : Supported(lastStore[k].opts)

\* a StorePayload and a RetrievePayload with the format simplesigning have returned
C6_Witness ==
  \E p, q \in Procs :
    /\ procs[p].op = "StorePayload" /\ procs[p].pc = "done"
    /\ procs[p].call.opts.PayloadFormat = "simplesigning"
    /\ procs[q].op = "RetrievePayload" /\ procs[q].pc = "done"
    /\ procs[q].call.opts.PayloadFormat = "simplesigning"

\* standard base64 with padding, line breaks aside: groups of four characters of
\* the alphabet, the last group closed by no, one or two '='
IsStdBase64(v) ==
  LET t == SelectSeq(v, LAMBDA c : c # NewLine)
      n == Len(t)
  IN /\ n % 4 = 0
     /\ \A i \in 1..n : t[i] < 64 \/ (t[i] = Pad /\ i > n - 2)
     /\ n > 0 /\ t[n] # Pad => t[n - 1] # Pad

\* C7: a RetrieveSignature or RetrievePayload whose Get found no annotation
\* under the key returns the empty result and no error; one whose Get found a
\* value that is not standard base64 returns the decoding error that names the
\* annotation key, and no value.
C7_AbsentOrCorrupt ==
  \A p \in Procs :
    Retrieved(p) =>
      /\ ~procs[p].got.exists => procs[p].res = Ok(<<>>)
      /\ procs[p].got.exists /\ ~IsStdBase64(procs[p].got.value)
           => procs[p].res =
                [err |-> "error decoding the annotation value for the key",
                 errKey |-> procs[p].annotationKey, val |-> <<>>]

\* one Retrieve has found no annotation, another one that is not base64
C7_Witness ==
  \E p, q \in Procs :
    /\ Retrieved(p) /\ ~procs[p].got.exists
    /\ Retrieved(q) /\ procs[q].got.exists /\ ~IsStdBase64(procs[q].got.value)
    /\ procs[q].res.errKey = "chains.tekton.dev/signature-B"

\* C9: a StorePayload that succeeds changes no annotation set last by a
\* StorePayload with the same slot-key and the other payload format.
C9_FormatsDoNotInterfere ==
  [][\A p \in Procs :
       procs[p].pc = "patching" /\ procs'[p].pc = "done" /\ procs'[p].res.err = ""
         => \A k \in DOMAIN writer :
              ( /\ writer[k].opts.Key = procs[p].call.opts.Key
                /\ writer[k].opts.PayloadFormat # procs[p].call.opts.PayloadFormat )
              => annotations'[k] = annotations[k]]_vars

---------------------------------------------------------------------------
(* Properties of the SignerVerifier *)

\* C4: when VerifySignature is given the DER signature that SignMessage made
\* of the raw signature r||s of the backend, the raw signature it sends to the
\* backend is r||s again, byte for byte.
C4_RawRoundTrip ==
  verify.how = "signed" /\ verify.requests = 1 => verify.rawSigBytes = sign.rawSig

\* C5: VerifySignature of a DER signature with a byte added after the sequence
\* or inside it after s, or with another tag in place of SEQUENCE, has returned
\* an error, not success, and has sent no verify request to the backend.
C5_StrictDER ==
  verify.how \in {"trailing byte", "trailing byte inside", "other tag"}
    => /\ verify.pc = "done"
       /\ verify.err # ""
       /\ ~verify.ok
       /\ verify.requests = 0
       /\ verify.backend = ""

\* a signature with a byte added inside the sequence was refused by the parser,
\* under a hash function the backend supports
C5_Witness ==
  /\ verify.how = "trailing byte inside"
  /\ verify.err = "parsing signature"
  /\ Len(sign.rawSig) = 4

\* C8: a SignMessage or VerifySignature called with a context that is already
\* cancelled sends no request to the backend and returns an error.
C8_HonorsCancellation ==
  /\ sign.opts.ctx = "cancelled"
       => sign.requests = 0 /\ (sign.pc = "done" => sign.err # "")
  /\ verify.opts.ctx = "cancelled"
       => verify.requests = 0 /\ (verify.pc = "done" => verify.err # "")

\* C10: a SignerVerifier that was constructed has a hash function the signing
\* operation of the backend supports, and SHA-256 when none was asked for.
C10_SupportedHashFunc ==
  sv.loaded =>
    /\ sv.hashFunc \in azureSupportedHashFuncs
    /\ sv.requested = NoHash => sv.hashFunc = SHA256

\* C11: a CreateKey call that names an algorithm outside SupportedAlgorithms
\* sends no create-key request to the backend, and when it has returned it has
\* returned an unsupported-algorithm error.
C11_UnsupportedAlgorithmRejected ==
  create.pc # "idle" /\ create.algorithm \notin SupportedAlgorithms
    => /\ create.requests = 0
       /\ create.pc = "done"
       /\ create.err = "unsupported algorithm"

---------------------------------------------------------------------------
(* Further properties of the storage backend *)

\* the record holds the annotation key, and its value is the base64 of bytes
Holds(key, bytes) ==
  /\ key \in DOMAIN annotations
  /\ DecodeString(annotations[key]) = DecodeOk(bytes)

\* C12: whenever StorePayload calls have been applied to a slot-key, by one
\* caller or by two at the same time, the four entries of the slot (signature,
\* cert, chain, and the payload of the format of the call applied last) hold
\* the signature, certificate, chain and payload of the call applied last; no
\* entry holds a value of another call.
C12_LastAppliedWins ==
  \A k \in DOMAIN lastStore :
    LET c == lastStore[k]
    IN /\ c.opts.Key = k
       /\ Holds("chains.tekton.dev/signature-" \o k, c.signature)
       /\ Holds("chains.tekton.dev/cert-" \o k, c.opts.Cert)
       /\ Holds("chains.tekton.dev/chain-" \o k, c.opts.Chain)
       /\ Holds((IF c.opts.PayloadFormat = "tekton" THEN "chains.tekton.dev/taskrun-"
                 ELSE "chains.tekton.dev/attestation-") \o k, c.rawPayload)

\* both callers have stored, different materials under the same slot-key and
\* the same format, and the call of w1 was applied last
C12_Witness ==
  /\ Stored("w1") /\ Stored("w2")
  /\ procs["w1"].call.opts.Key = procs["w2"].call.opts.Key
  /\ procs["w1"].call.opts.PayloadFormat = procs["w2"].call.opts.PayloadFormat
  /\ procs["w1"].call.rawPayload # procs["w2"].call.rawPayload
  /\ procs["w1"].call.signature # procs["w2"].call.signature
  /\ lastStore[procs["w1"].call.opts.Key] = procs["w1"].call
  /\ ncalls = 2

\* C13: no step of a StorePayload, RetrieveSignature or RetrievePayload call
\* takes an annotation key from the record: a key that is present stays
\* present, a StorePayload changes values only under the keys of its patch, and
\* a step of a Retrieve call leaves the annotations as they are.
C13_KeysStayPresent ==
  [][/\ DOMAIN annotations \subseteq DOMAIN annotations'
     /\ \A p \in Procs :
          procs'[p] # procs[p] =>
            /\ procs'[p].op \in {"RetrieveSignature", "RetrievePayload"}
                 => annotations' = annotations
            /\ \A k \in DOMAIN annotations :
                 annotations'[k] # annotations[k]
                   => /\ procs[p].op = "StorePayload"
                      /\ k \in DOMAIN procs[p].patchBytes.metadata.annotations]_vars

\* a StorePayload for slot B has overwritten the signature entry the record
\* had at the start; the payload entry and the annotation of the other tool
\* that it had at the start are still there, and a Retrieve has returned
C13_Witness ==
  /\ "chains.tekton.dev/signature-B" \in DOMAIN tr
  /\ "chains.tekton.dev/signature-B" \in DOMAIN writer
  /\ annotations["chains.tekton.dev/signature-B"] # tr["chains.tekton.dev/signature-B"]
  /\ "chains.tekton.dev/taskrun-B" \in DOMAIN annotations
  /\ "tekton.dev/unrelated" \in DOMAIN annotations
  /\ \E p \in Procs : Retrieved(p)

\* C14: the step in which a StorePayload succeeds leaves every annotation of
\* the record as it was when the StorePayload applied last to its slot-key
\* had the same payload, signature and options: the second of two equal
\* StorePayload calls in a row changes nothing.
C14_Retryable ==
  [][\A p \in Procs :
       ( /\ procs[p].pc = "patching"
         /\ procs'[p].pc = "done"
         /\ procs'[p].res.err = ""
         /\ procs[p].call.opts.Key \in DOMAIN lastStore
         /\ lastStore[procs[p].call.opts.Key] = procs[p].call )
         => annotations' = annotations]_vars

\* the two StorePayload calls made were equal and both succeeded, on a record
\* that had annotations at the start
C14_Witness ==
  /\ tr # EmptyMap
  /\ ncalls = 2
  /\ Stored("w1") /\ Stored("w2")
  /\ procs["w1"].call = procs["w2"].call
  /\ procs["w1"].call.opts.Key = "B"

\* C15: a StorePayload call sends at most one Patch request and no Get.  The
\* answer of the store to the Patch ends the call: when the store rejects the
\* patch the call returns an error and the annotations are as they were, and
\* the call returns no error only when the record holds the entries of its
\* patch.
C15_OnePatchNoRetry ==
  [][\A p \in Procs :
       /\ procs'[p].op = "StorePayload"
            => /\ procs'[p].patches <= 1
               /\ procs'[p].gets = 0
               /\ procs'[p].pc = "patching" => procs'[p].patches = 1
       /\ ( procs[p].pc = "patching" /\ procs'[p] # procs[p] )
            => /\ procs'[p].pc = "done"
               /\ procs'[p].op = "StorePayload"
               /\ procs'[p].patches = 1
               /\ procs'[p].res.err \in {"", "patch rejected"}
               /\ procs'[p].res.err # "" => annotations' = annotations
               /\ procs'[p].res.err = ""
                    => \A k \in DOMAIN procs[p].patchBytes.metadata.annotations :
                         /\ k \in DOMAIN annotations'
                         /\ annotations'[k] = procs[p].patchBytes.metadata.annotations[k]]_vars

\* the store has rejected the patch of the only call made: the call has
\* returned the error after one Patch request, and the record has no entry
C15_Witness ==
  /\ ncalls = 1
  /\ annotations = EmptyMap
  /\ \E p \in Procs :
       /\ procs[p].op = "StorePayload"
       /\ procs[p].pc = "done"
       /\ procs[p].res.err = "patch rejected"
       /\ procs[p].patches = 1
       /\ procs[p].gets = 0

\* C16: a Retrieve call that returns a value has sent one Get, and what it
\* returns is the decoding of what the record held under its annotation key
\* when the Get returned, whatever the TaskRun held when the Backend was made:
\* after the StorePayload of another caller was applied to the slot-key,
\* RetrieveSignature returns the signature of that StorePayload.
C16_FreshGet ==
  \A p \in Procs :
    /\ ( /\ procs[p].op \in {"RetrieveSignature", "RetrievePayload"}
         /\ procs[p].pc = "done"
         /\ procs[p].res.err \in {"", "error decoding the annotation value for the key"} )
         => /\ procs[p].gets = 1
            /\ procs[p].patches = 0
            /\ procs[p].res =
                 retrieveAnnotationValue(
                    IF procs[p].got.exists
                    THEN (procs[p].annotationKey :> procs[p].got.value) ELSE EmptyMap,
                    procs[p].annotationKey, TRUE)
    /\ ( /\ procs[p].op = "RetrieveSignature"
         /\ Retrieved(p)
         /\ procs[p].got.last # NoCall )
         => procs[p].res.val = procs[p].got.last.signature

\* after w2 has stored a signature for slot B, the RetrieveSignature of w1
\* has returned that signature, which is not what the annotations of the
\* TaskRun held by the Backend decode to
C16_Witness ==
  /\ Stored("w2")
  /\ procs["w2"].call.opts.Key = "B"
  /\ procs["w1"].op = "RetrieveSignature"
  /\ Retrieved("w1")
  /\ procs["w1"].call.opts.Key = "B"
  /\ procs["w1"].got.last = procs["w2"].call
  /\ procs["w1"].res = Ok(procs["w2"].call.signature)
  /\ procs["w1"].res #
       retrieveAnnotationValue(tr, "chains.tekton.dev/signature-B", TRUE)
  /\ "chains.tekton.dev/signature-B" \in DOMAIN tr

\* the annotation keys of the store's key formats
StoreKeys ==
  { Sprintf(f, k) :
      f \in {TaskRunAnnotationFormat, AttestationAnnotationFormat,
              SignatureAnnotationFormat, CertAnnotationsFormat, ChainAnnotationFormat},
      k \in Keys }

\* C18: on a TaskRun that had no annotation of the store's key formats when
\* the callers began, every annotation under such a key was written by a
\* StorePayload and is standard base64, and no RetrieveSignature and no
\* RetrievePayload has returned the decoding error.
C18_StoredValuesDecode ==
  DOMAIN tr \cap StoreKeys = {}
    => /\ \A k \in DOMAIN annotations \cap StoreKeys :
            /\ k \in DOMAIN writer
            /\ IsStdBase64(annotations[k])
       /\ \A p \in Procs :
            procs[p].res.err # "error decoding the annotation value for the key"

\* on a TaskRun that had no annotations, the chain of three bytes 255, 254,
\* 253 and the empty certificate have been stored, and a RetrievePayload has
\* returned the payload
C18_Witness ==
  /\ tr = EmptyMap
  /\ "chains.tekton.dev/chain-A" \in DOMAIN annotations
  /\ annotations["chains.tekton.dev/chain-A"] = <<63, 63, 59, 61>>
  /\ annotations["chains.tekton.dev/cert-A"] = <<>>
  /\ \E p \in Procs :
       /\ Retrieved(p)
       /\ procs[p].op = "RetrievePayload"
       /\ procs[p].res = Ok(<<0, 16, 131, 7>>)

---------------------------------------------------------------------------
(* Further properties of the SignerVerifier *)

\* the VerifySignature call has returned success
VerifySucceeded ==
  verify.pc = "done" /\ verify.err = "" /\ verify.ok

\* the VerifySignature call sent one verify request to the backend, with the
\* digest of the call and the raw signature r||s of the signature it was given
BackendAsked ==
  /\ verify.requests = 1
  /\ verify.backend \in {"valid", "invalid"}
  /\ verify.digest = ComputeDigest(sv.hashFunc, azureSupportedHashFuncs, verify.opts).digest
  /\ verify.digest # ""
  /\ rawFromDER(verify.sigBytes).ok
  /\ verify.rawSigBytes = rawFromDER(verify.sigBytes).rawSigBytes

\* C17 as stated: VerifySignature returns success only when the backend was
\* asked and answered valid, and a call whose signature parses returns what
\* the backend answered.
C17_BackendDecides ==
  /\ VerifySucceeded => BackendAsked /\ verify.backend = "valid"
  /\ verify.pc = "done" /\ rawFromDER(verify.sigBytes).ok
       => /\ BackendAsked
          /\ verify.ok <=> verify.backend = "valid"
          /\ verify.err = "" <=> verify.backend = "valid"

\* C17 amended: VerifySignature returns success only when the backend was
\* asked and answered valid, and a call whose digest is computed and whose
\* signature parses returns what the backend answered; a call whose digest
\* is not computed returns that error and the backend is not asked.
C17_BackendDecidesGivenDigest ==
  /\ VerifySucceeded => BackendAsked /\ verify.backend = "valid"
  /\ ( /\ verify.pc = "done"
       /\ rawFromDER(verify.sigBytes).ok
       /\ ComputeDigest(sv.hashFunc, azureSupportedHashFuncs, verify.opts).err = "" )
       => /\ BackendAsked
          /\ verify.ok <=> verify.backend = "valid"
          /\ verify.err = "" <=> verify.backend = "valid"
  /\ ( /\ verify.pc = "done"
       /\ ComputeDigest(sv.hashFunc, azureSupportedHashFuncs, verify.opts).err # "" )
       => /\ verify.requests = 0
          /\ ~verify.ok
          /\ verify.err = ComputeDigest(sv.hashFunc, azureSupportedHashFuncs, verify.opts).err

\* the backend has answered invalid for the signature that SignMessage
\* returned, and VerifySignature has returned the backend's error
C17_Witness ==
  /\ verify.pc = "done"
  /\ verify.how = "signed"
  /\ verify.sigBytes = sign.der
  /\ verify.requests = 1
  /\ verify.backend = "invalid"
  /\ ~verify.ok
  /\ verify.err = "verify"

====
